---- MODULE Spec2Model ----
(***************************************************************************)
(* BrewMetric: the authorization and accountability core.                  *)
(*                                                                         *)
(* The persisted state is the relational store of database/database.py     *)
(* (users, inventory_items, waste_logs, audit_trails); the process state   *)
(* is the application controller of main.py with its login window, main    *)
(* window and pages, each page holding its own SQLAlchemy session.         *)
(*                                                                         *)
(* Strings whose content the code inspects (usernames, emails, passwords)  *)
(* are tuples of one-character strings, so that the format checks of       *)
(* auth/auth.py are computed and not assumed.  Quantities are doubles (see  *)
(* Hundredths below).                                                      *)
(***************************************************************************)
EXTENDS Integers, Sequences, FiniteSets, TLC

VARIABLES
    users,          \* table users: sequence of rows, id = index
    items,          \* table inventory_items: sequence of rows, id = index
    wasteLogs,      \* table waste_logs, in insertion order
    audits,         \* table audit_trails, in insertion order
    phase,          \* BrewMetricApp: "stopped", "login" (LoginWindow shown), "main" (MainWindow shown)
    current_user,   \* AuthManager.current_user (a user row snapshot, or NoUser)
    current_session,\* AuthManager.current_session (a session name, or NoSession)
    winUser,        \* MainWindow.user / page.user: the row snapshot handed over at login
    error_label,    \* LoginWindow.error_label text
    loginReturn,    \* what AuthManager.authenticate_user returned to the last login attempt
    msgBox,         \* the last QMessageBox shown by a page: <<kind, text>>
    pending,        \* per page session: changes added or assigned and not yet committed
    cu,             \* create_user callers (one session each): their call frames
    baseline,       \* history, per item: the quantity its last add or edit committed,
                    \* and the number of waste_logs rows at that moment
    perm,           \* the last has_permission query and its answer
    qres,           \* the last query of AuditQueries or InventoryQueries and its result
    boot,           \* history: the last two start-ups, each with the users table before
                    \* create_default_admin, what it returned, the table after it and
                    \* whether the default credentials were printed
    wtx,            \* the waste page's write-off in progress: its place in lines 96-111
                    \* and the view of its open database transaction
    seen,           \* what the last query of a reader on another session returned
    task,           \* the last ThreadManager.run_in_thread call: the worker's place,
                    \* what func did and the callbacks the worker has invoked
    pages,          \* MainWindow.pages: the keys of the pages created
    current_page,   \* MainWindow.current_page
    held            \* per item: the quantity on the InventoryItem object the inventory
                    \* page's session holds (kept alive by an EditItemDialog), or NoCopy

vars == <<users, items, wasteLogs, audits, phase, current_user, current_session,
          winUser, error_label, loginReturn, msgBox, pending, cu, baseline, perm,
          qres, boot, wtx, seen, task, pages, current_page, held>>

-----------------------------------------------------------------------------
(* Bounds of the model *)

MaxUsers == 2       \* rows in users
MaxItems == 1       \* rows in inventory_items
MaxQty == 1         \* largest value a quantity spin box delivers, in hundredths
MaxLogs == 2        \* rows in waste_logs
MaxAudits == 3      \* rows in audit_trails
NSalts == 1         \* distinct salts bcrypt.gensalt may draw

-----------------------------------------------------------------------------
(* config.py is not part of the sources at hand: its values are taken from  *)
(* the comments and docstrings that quote them.                             *)

ROLE_ADMIN == "admin"
ROLE_STAFF == "staff"
PASSWORD_MIN_LENGTH == 8
WASTE_REASONS == {"spill", "expired"}

NoUser == [id |-> 0]
\* users.last_login is nullable and has no default (database.py line 30)
NoTime == "NULL"
NoSession == "none"
Max(a, b) == IF a >= b THEN a ELSE b

-----------------------------------------------------------------------------
(* Character classes of the regular expressions *)

Lower == {"a","b","c","d","e","f","g","h","i","j","k","l","m",
          "n","o","p","q","r","s","t","u","v","w","x","y","z"}
Upper == {"A","B","C","D","E","F","G","H","I","J","K","L","M",
          "N","O","P","Q","R","S","T","U","V","W","X","Y","Z"}
Digit == {"0","1","2","3","4","5","6","7","8","9"}
Special == {"!","@","#","$","%","^","&","*"}
Alpha == Lower \cup Upper

\* re.search(r'[class]', s)
Search(class, s) == \E i \in 1..Len(s) : s[i] \in class

\* every character of s[a..b] is in class
AllIn(s, a, b, class) == \A i \in a..b : s[i] \in class

-----------------------------------------------------------------------------
(* CredentialVault: auth.py *)

validate_password_strength(password) ==
    IF Len(password) < PASSWORD_MIN_LENGTH THEN "Password must be at least 8 characters long"
    ELSE IF ~Search(Lower, password) THEN "Password must contain at least one lowercase letter"
    ELSE IF ~Search(Upper, password) THEN "Password must contain at least one uppercase letter"
    ELSE IF ~Search(Digit, password) THEN "Password must contain at least one digit"
    ELSE IF ~Search(Special, password) THEN "Password must contain at least one special character"
    ELSE "ok"

validate_username(username) ==
    IF Len(username) < 3 \/ Len(username) > 50
    THEN "Username must be between 3 and 50 characters"
    ELSE IF ~(/\ username[1] \in Alpha \cup {"_"}
              /\ AllIn(username, 2, Len(username), Alpha \cup Digit \cup {"_"}))
    THEN "Username can only contain letters, numbers, and underscores"
    ELSE "ok"

\* ^[a-zA-Z0-9._%+-]+@[a-zA-Z0-9.-]+\.[a-zA-Z]{2,}$
validate_email(email) ==
    IF \E at \in 2..Len(email) : \E dot \in (at + 2)..(Len(email) - 2) :
          /\ email[at] = "@"
          /\ AllIn(email, 1, at - 1, Alpha \cup Digit \cup {".", "_", "%", "+", "-"})
          /\ AllIn(email, at + 1, dot - 1, Alpha \cup Digit \cup {".", "-"})
          /\ email[dot] = "."
          /\ AllIn(email, dot + 1, Len(email), Alpha)
    THEN "ok"
    ELSE "Invalid email format"

\* bcrypt reads the first 72 bytes of the password; the characters here are
\* ASCII, one byte each in UTF-8
BcryptMaxBytes == 72

\* bcrypt.hashpw(password, salt): a one-way function of the salt and of the
\* bytes of the password bcrypt reads, kept symbolic; the salt is part of the
\* stored hash.  (A bcrypt build that refuses a longer password instead makes
\* hash_password raise, which create_user answers as a failed insert and
\* verify_password as False: the outcomes of dbFail and dbError.)
hashpw(password, salt) ==
    <<"$2b$", salt,
      IF Len(password) > BcryptMaxBytes THEN SubSeq(password, 1, BcryptMaxBytes)
      ELSE password>>

hash_password(password, salt) == hashpw(password, salt)

WellFormedHash(h) == /\ DOMAIN h = 1..3
                     /\ h[1] = "$2b$"

\* bcrypt.checkpw re-hashes with the salt of the stored hash and compares;
\* a malformed stored hash raises inside bcrypt and is answered False.
verify_password(plain_password, hashed_password) ==
    IF WellFormedHash(hashed_password)
    THEN hashpw(plain_password, hashed_password[2]) = hashed_password
    ELSE FALSE

-----------------------------------------------------------------------------
(* Authorizer: auth.py *)

\* mutant of lines 288-295: delete_item slipped into the allow-list
staff_allowed_WithDelete == {"view_inventory", "add_item", "adjust_stock",
                             "record_waste", "view_activity", "export_inventory",
                             "delete_item"}

staff_allowed == {"view_inventory", "add_item", "adjust_stock",
                  "record_waste", "view_activity", "export_inventory"}

has_permission(user, action) ==
    IF user = NoUser THEN FALSE
    ELSE IF user.role = ROLE_ADMIN THEN TRUE
    ELSE IF user.role = ROLE_STAFF THEN action \in staff_allowed
    ELSE FALSE

-----------------------------------------------------------------------------
(* Strings used as inputs *)

S_admin == <<"a","d","m","i","n">>
S_ann == <<"a","n","n">>
S_bob == <<"b","o","b">>
S_1ab == <<"1","a","b">>
S_zed == <<"z","e","d">>
E_admin == <<"a","d","m","i","n","@","b","r","e","w","m","e","t","r","i","c",
            ".","l","o","c","a","l">>
E_ann == <<"a","@","x",".","i","o">>
E_bob == <<"b","@","x",".","i","o">>
E_bad == <<"a","@","x">>
P_admin == <<"A","d","m","i","n","@","1","2","3","4","5","6">>
P_good == <<"A","b","c","d","e","f","1","!">>
P_weak == <<"a","b","c","d","e","f","g","1">>
\* two passwords of 73 characters that differ in the last one
P_long1 == P_good \o [i \in 1..64 |-> "a"] \o <<"x">>
P_long2 == P_good \o [i \in 1..64 |-> "a"] \o <<"y">>

Req(username, email, password, full_name, role) ==
    [username |-> username, email |-> email, password |-> password,
     full_name |-> full_name, role |-> role]

\* the call create_default_admin makes
DefaultAdminReq == Req(S_admin, E_admin, P_admin, "Administrator", ROLE_ADMIN)

\* the create_user calls the callers of the directory make
DirRequests == {
    Req(S_ann, E_ann, P_good, "Ann", ROLE_STAFF),
    Req(S_ann, E_bob, P_good, "Ann", ROLE_STAFF),
    Req(S_bob, E_ann, P_good, "Bob", "guest"),
    Req(S_bob, E_bob, P_good, "Bob", "guest"),
    Req(S_admin, E_admin, P_good, "Impostor", ROLE_STAFF),
    Req(S_1ab, E_ann, P_good, "Bad", ROLE_STAFF),
    Req(S_ann, E_bad, P_good, "Bad", ROLE_STAFF),
    Req(S_ann, E_ann, P_weak, "Bad", ROLE_STAFF) }

Salts == 1..NSalts
Callers == {"c1", "c2"}

-----------------------------------------------------------------------------
(* Directory: AuthManager.create_user, auth.py, and the users table *)

\* mutant of line 196: the query finds nothing
UserByUsername_Blind(us, username) == NoUser

\* session.query(User).filter(User.username == username).first()
UserByUsername(us, username) ==
    IF \E i \in 1..Len(us) : us[i].username = username
    THEN us[CHOOSE i \in 1..Len(us) : us[i].username = username]
    ELSE NoUser

\* session.query(User).filter(User.email == email).first()
UserByEmail(us, email) ==
    IF \E i \in 1..Len(us) : us[i].email = email
    THEN us[CHOOSE i \in 1..Len(us) : us[i].email = email]
    ELSE NoUser

\* mutant of lines 180-188: the email validated before the username
ValidateReq_EmailFirst(req) ==
    IF validate_email(req.email) # "ok"
    THEN <<"Invalid email", validate_email(req.email)>>
    ELSE IF validate_username(req.username) # "ok"
    THEN <<"Invalid username", validate_username(req.username)>>
    ELSE IF validate_password_strength(req.password) # "ok"
    THEN <<"Weak password", validate_password_strength(req.password)>>
    ELSE <<"ok">>

\* the three format checks, in the order of the code: the first failure is returned
ValidateReq(req) ==
    IF validate_username(req.username) # "ok"
    THEN <<"Invalid username", validate_username(req.username)>>
    ELSE IF validate_email(req.email) # "ok"
    THEN <<"Invalid email", validate_email(req.email)>>
    ELSE IF validate_password_strength(req.password) # "ok"
    THEN <<"Weak password", validate_password_strength(req.password)>>
    ELSE <<"ok">>

\* the row User(...) builds; the integer primary key is the next rowid
NewUserRow(us, req, salt) ==
    [id |-> Len(us) + 1, username |-> req.username, email |-> req.email,
     password_hash |-> hash_password(req.password, salt),
     full_name |-> req.full_name, role |-> req.role, is_active |-> TRUE,
     last_login |-> NoTime]

\* mutant of database.py lines 23-24: the columns not declared unique
UniqueViolation_None(us, row) == FALSE

\* unique=True on users.username and users.email: the INSERT raises IntegrityError
UniqueViolation(us, row) ==
    \E i \in 1..Len(us) : us[i].username = row.username \/ us[i].email = row.email

Failure(msg) == [ok |-> FALSE, msg |-> msg, user |-> NoUser]

\* lines 205-221: add, commit; any exception rolls the session back
InsertUser(us, req, salt, dbFail) ==
    IF dbFail \/ UniqueViolation(us, NewUserRow(us, req, salt))
    THEN [ret |-> Failure(<<"Error creating user">>), users |-> us]
    ELSE [ret |-> [ok |-> TRUE, msg |-> <<"User created successfully">>,
                   user |-> NewUserRow(us, req, salt)],
          users |-> Append(us, NewUserRow(us, req, salt))]

\* create_user run by one session with no other session writing in between
create_user(us, req, salt, dbFail) ==
    IF ValidateReq(req) # <<"ok">>
    THEN [ret |-> Failure(ValidateReq(req)), users |-> us]
    ELSE IF UserByUsername(us, req.username) # NoUser
    THEN [ret |-> Failure(<<"Username already exists">>), users |-> us]
    ELSE IF UserByEmail(us, req.email) # NoUser
    THEN [ret |-> Failure(<<"Email already exists">>), users |-> us]
    ELSE InsertUser(us, req, salt, dbFail)

IdleFrame == [pc |-> "idle", req |-> DefaultAdminReq, ret |-> Failure(<<"">>)]

InFlight == {c \in Callers : cu[c].pc \in {"email", "insert"}}

AppUnchanged == UNCHANGED <<items, wasteLogs, audits, phase, current_user,
                            current_session, winUser, error_label, loginReturn,
                            msgBox, pending, baseline, perm, qres, boot,
                            wtx, seen, task, pages, current_page, held>>

\* lines 180-198: the format checks and the username query
CreateUserBegin(c, req) ==
    /\ cu[c].pc \in {"idle", "done"}
    /\ Len(users) + Cardinality(InFlight) < MaxUsers
    /\ cu' = [cu EXCEPT ![c] =
                IF ValidateReq(req) # <<"ok">>
                THEN [pc |-> "done", req |-> req, ret |-> Failure(ValidateReq(req))]
                ELSE IF UserByUsername(users, req.username) # NoUser
                THEN [pc |-> "done", req |-> req,
                      ret |-> Failure(<<"Username already exists">>)]
                ELSE [pc |-> "email", req |-> req, ret |-> Failure(<<"">>)]]
    /\ UNCHANGED users
    /\ AppUnchanged

\* lines 200-203: the email query
CreateUserEmail(c) ==
    /\ cu[c].pc = "email"
    /\ cu' = [cu EXCEPT ![c] =
                IF UserByEmail(users, cu[c].req.email) # NoUser
                THEN [@ EXCEPT !.pc = "done",
                               !.ret = Failure(<<"Email already exists">>)]
                ELSE [@ EXCEPT !.pc = "insert"]]
    /\ UNCHANGED users
    /\ AppUnchanged

\* lines 205-221: hash, add, commit, refresh; or rollback
CreateUserInsert(c) ==
    /\ cu[c].pc = "insert"
    /\ \E salt \in Salts, dbFail \in BOOLEAN :
         LET r == InsertUser(users, cu[c].req, salt, dbFail) IN
           /\ users' = r.users
           /\ cu' = [cu EXCEPT ![c] = [@ EXCEPT !.pc = "done", !.ret = r.ret]]
    /\ AppUnchanged

-----------------------------------------------------------------------------
(* The SQLAlchemy sessions of the pages: sessionmaker(autocommit=False,     *)
(* autoflush=False).  A session collects attribute assignments (dirty) and  *)
(* added objects (new) until commit() flushes them in one transaction.  A   *)
(* flush that raises rolls the transaction back, discards what was pending  *)
(* and leaves the session inactive: every later query or commit on it       *)
(* raises until rollback() is called.                                       *)

PageSessions == {"main", "inventory", "waste"}

CleanSession == [dirty |-> {}, new |-> <<>>, inactive |-> FALSE]

Db == [items |-> items, wasteLogs |-> wasteLogs, audits |-> audits]

\* item.quantity = q on the object a session holds
SetQuantity(s, id, q) ==
    [s EXCEPT !.dirty = {d \in @ : d[1] # id} \cup {<<id, q>>}]

\* session.add(obj)
SessionAdd(s, table, row) == [s EXCEPT !.new = Append(@, <<table, row>>)]

\* session.rollback()
SessionRollback(s) == CleanSession

\* the quantity of the object session.query(InventoryItem).get(id) returns
QuantityIn(db, s, id) ==
    IF \E d \in s.dirty : d[1] = id
    THEN (CHOOSE d \in s.dirty : d[1] = id)[2]
    ELSE db.items[id].quantity

ApplyDirty(its, dirty) ==
    [i \in 1..Len(its) |->
        IF \E d \in dirty : d[1] = i
        THEN [its[i] EXCEPT !.quantity = (CHOOSE d \in dirty : d[1] = i)[2]]
        ELSE its[i]]

RECURSIVE ApplyNew(_, _)
ApplyNew(db, new) ==
    IF new = <<>> THEN db
    ELSE LET table == Head(new)[1]
             row == Head(new)[2]
             next ==
               IF table = "inventory_items"
               THEN [db EXCEPT !.items = Append(@, [row EXCEPT !.id = Len(db.items) + 1])]
               ELSE IF table = "waste_logs"
               THEN [db EXCEPT !.wasteLogs = Append(@, row)]
               ELSE [db EXCEPT !.audits = Append(@, row)]
         IN ApplyNew(next, Tail(new))

\* mutant of the flush: an added audit_trails row takes the primary key of
\* the newest stored row and replaces it
SessionCommit_Overwrites(db, s, flushFails) ==
    IF s.inactive
    THEN [raised |-> TRUE, db |-> db, session |-> s]
    ELSE IF flushFails
    THEN [raised |-> TRUE, db |-> db,
          session |-> [dirty |-> {}, new |-> <<>>, inactive |-> TRUE]]
    ELSE [raised |-> FALSE,
          db |-> ApplyNew([db EXCEPT !.items = ApplyDirty(@, s.dirty),
                                     !.audits = IF @ = <<>> \/ s.new = <<>> THEN @
                                                ELSE SubSeq(@, 1, Len(@) - 1)],
                          s.new),
          session |-> CleanSession]

\* mutant of the failed flush: what was pending stays in the session, which
\* stays usable
SessionCommit_KeepsPending(db, s, flushFails) ==
    IF s.inactive
    THEN [raised |-> TRUE, db |-> db, session |-> s]
    ELSE IF flushFails
    THEN [raised |-> TRUE, db |-> db, session |-> s]
    ELSE [raised |-> FALSE,
          db |-> ApplyNew([db EXCEPT !.items = ApplyDirty(@, s.dirty)], s.new),
          session |-> CleanSession]

\* session.commit(): [raised, db, session] after it.  flushFails is the
\* storage refusing one of the statements of the flush.
SessionCommit(db, s, flushFails) ==
    IF s.inactive
    THEN [raised |-> TRUE, db |-> db, session |-> s]
    ELSE IF flushFails
    THEN [raised |-> TRUE, db |-> db,
          session |-> [dirty |-> {}, new |-> <<>>, inactive |-> TRUE]]
    ELSE [raised |-> FALSE,
          db |-> ApplyNew([db EXCEPT !.items = ApplyDirty(@, s.dirty)], s.new),
          session |-> CleanSession]

DirUnchanged == UNCHANGED <<users, cu, perm, qres, boot, wtx, seen, task, pages,
                            current_page>>

SetDb(db) ==
    /\ items' = db.items
    /\ wasteLogs' = db.wasteLogs
    /\ audits' = db.audits

-----------------------------------------------------------------------------
(* AuthManager.authenticate_user, auth.py *)

\* mutant of lines 146-147: the is_active test left out
authenticate_user_IgnoresActive(us, username, password, dbError) ==
    IF dbError THEN NoUser
    ELSE LET user == UserByUsername(us, username) IN
         IF user = NoUser THEN NoUser
         ELSE IF ~verify_password(password, user.password_hash) THEN NoUser
         ELSE user

authenticate_user(us, username, password, dbError) ==
    IF dbError THEN NoUser
    ELSE LET user == UserByUsername(us, username) IN
         IF user = NoUser THEN NoUser
         ELSE IF ~user.is_active THEN NoUser
         ELSE IF ~verify_password(password, user.password_hash) THEN NoUser
         ELSE user

\* AuthManager.set_current_user: the slot after it
set_current_user(user, session) ==
    [current_user |-> user, current_session |-> session]

\* mutant of lines 325-326: the session handle left in the slot
logout_KeepsSession == [current_user |-> NoUser, current_session |-> "login"]

\* AuthManager.logout: the slot after it
logout == [current_user |-> NoUser, current_session |-> NoSession]

\* AuthManager.create_default_admin
FirstAdmin(us) ==
    IF \E i \in 1..Len(us) : us[i].role = ROLE_ADMIN
    THEN us[CHOOSE i \in 1..Len(us) :
                /\ us[i].role = ROLE_ADMIN
                /\ \A j \in 1..(i - 1) : us[j].role # ROLE_ADMIN]
    ELSE NoUser

create_default_admin(us, salt, dbFail) ==
    IF FirstAdmin(us) # NoUser
    THEN [admin |-> FirstAdmin(us), users |-> us]
    ELSE LET r == create_user(us, DefaultAdminReq, salt, dbFail) IN
         [admin |-> r.ret.user, users |-> r.users]

-----------------------------------------------------------------------------
(* MainWindow.log_audit_action, main_window.py: add, commit; an exception   *)
(* is printed and swallowed, the session is not rolled back.                *)

AuditRow(user, action, entity_type, entity_id) ==
    [user_id |-> user.id, action |-> action, entity_type |-> entity_type,
     entity_id |-> entity_id]

log_audit_action(db, s, user, action, entity_type, entity_id, flushFails) ==
    LET c == SessionCommit(db, SessionAdd(s, "audit_trails",
                               AuditRow(user, action, entity_type, entity_id)),
                           flushFails)
    IN [db |-> c.db, session |-> c.session]

-----------------------------------------------------------------------------
(* AuditQueries, database.py.  A query answers with the primary keys of the *)
(* rows it returns, in the order it returns them; a row's key is its place  *)
(* in the table, and created_at grows with it.                              *)

NoQuery == [query |-> "none", arg |-> "", limit |-> 0, rows |-> <<>>, value |-> 0]

Min(a, b) == IF a <= b THEN a ELSE b

\* .order_by(created_at.desc()) over the rows `ids`: the k-th row returned
\* is the one with k - 1 newer rows
NewestFirst(ids) ==
    [k \in 1..Cardinality(ids) |->
        CHOOSE i \in ids : Cardinality({j \in ids : j > i}) = k - 1]

\* .limit(limit)
Limit(rows, limit) == SubSeq(rows, 1, Min(limit, Len(rows)))

\* the default of the limit parameter of get_recent_actions
RecentActionsDefaultLimit == 100

get_recent_actions(as, limit) ==
    Limit(NewestFirst(1..Len(as)), limit)

get_actions_by_user(as, user_id) ==
    NewestFirst({k \in 1..Len(as) : as[k].user_id = user_id})

get_actions_by_type(as, action_type) ==
    NewestFirst({k \in 1..Len(as) : as[k].action = action_type})

-----------------------------------------------------------------------------
(* Waste write-off: WasteLogPage.show_add_waste_dialog, waste_log.py *)

NoBox == <<"", "">>

-----------------------------------------------------------------------------
(* Quantities are Float columns and QDoubleSpinBox values: IEEE 754 doubles. *)
(* A spin box (two decimals) delivers the double nearest to k hundredths,    *)
(* named by the even number 2k.  The difference of two such doubles need not *)
(* be one of them: 0.03 - 0.01 is 0.019999999999999997.  A double that lies  *)
(* a few units in the last place below the double of k hundredths is named   *)
(* by the odd number 2k - 1.  The order of the names is the order of the     *)
(* doubles.                                                                  *)

\* QDoubleSpinBox.value(): the double nearest to k hundredths
Hundredths(k) == 2 * k

\* QDoubleSpinBox.setValue(v) followed by value(): v rounded to two decimals
SpinBoxRound(v) == IF v % 2 = 1 THEN v + 1 ELSE v

\* the spin box values up to 0.03 whose difference is not the double of the
\* difference of their hundredths:
\* 0.03 - 0.01 = 0.019999999999999997, 0.03 - 0.02 = 0.009999999999999998
InexactDifferences == { <<Hundredths(3), Hundredths(1)>>,
                        <<Hundredths(3), Hundredths(2)>> }

\* a - b in doubles, for a and b up to 0.03
FloatSub(a, b) == a - b - (IF <<a, b>> \in InexactDifferences THEN 1 ELSE 0)

\* mutants of line 108: the operands exchanged; the floor left out
NewQuantity_Swapped(quantity, wasted) == Max(0, FloatSub(wasted, quantity))
NewQuantity_NoFloor(quantity, wasted) == FloatSub(quantity, wasted)

\* line 108
NewQuantity(quantity, wasted) == Max(0, FloatSub(quantity, wasted))

\* mutant of lines 115-117: the rollback left out
WasteFailed_NoRollback(db, s) ==
    [db |-> db, session |-> s,
     msgBox |-> <<"critical", "Failed to record waste">>]

\* lines 115-117: rollback and the error box
WasteFailed(db, s) ==
    [db |-> db, session |-> SessionRollback(s),
     msgBox |-> <<"critical", "Failed to record waste">>]

\* mutant of lines 102-107: the WasteLog stores what was taken from stock
record_waste_LogsRemoved(db, s, user, item_id, quantity, reason, failAt) ==
    LET on_hand == QuantityIn(db, s, item_id)
        waste_log == [inventory_item_id |-> item_id, user_id |-> user.id,
                      quantity |-> on_hand - NewQuantity(on_hand, quantity),
                      reason |-> reason]
        s1 == SetQuantity(s, item_id, NewQuantity(QuantityIn(db, s, item_id), quantity))
        s2 == SessionAdd(s1, "waste_logs", waste_log)
        c == SessionCommit(db, s2, failAt = "flush")
    IN IF s.inactive THEN WasteFailed(db, s)
       ELSE IF failAt = "assign" THEN WasteFailed(db, s1)
       ELSE IF failAt = "add" THEN WasteFailed(db, s2)
       ELSE IF c.raised THEN WasteFailed(db, c.session)
       ELSE [db |-> c.db, session |-> c.session,
             msgBox |-> <<"information", "Waste entry recorded">>]

\* lines 96-117.  failAt injects an exception: "assign" after the quantity is
\* assigned, "add" after session.add, "flush" inside session.commit().
record_waste(db, s, user, item_id, quantity, reason, failAt) ==
    LET waste_log == [inventory_item_id |-> item_id, user_id |-> user.id,
                      quantity |-> quantity, reason |-> reason]
        s1 == SetQuantity(s, item_id, NewQuantity(QuantityIn(db, s, item_id), quantity))
        s2 == SessionAdd(s1, "waste_logs", waste_log)
        c == SessionCommit(db, s2, failAt = "flush")
    IN IF s.inactive THEN WasteFailed(db, s)
       ELSE IF failAt = "assign" THEN WasteFailed(db, s1)
       ELSE IF failAt = "add" THEN WasteFailed(db, s2)
       ELSE IF c.raised THEN WasteFailed(db, c.session)
       ELSE [db |-> c.db, session |-> c.session,
             msgBox |-> <<"information", "Waste entry recorded">>]

-----------------------------------------------------------------------------
(* Inventory page: InventoryPage.show_add_dialog, on_item_double_click *)

\* the values AddItemDialog delivers when its fields are left as they open:
\* threshold 10, cost 0, expiry 30 days ahead (inventory.py lines 251-263)
DialogCategory == "Tea"
DialogThreshold == 10
DialogCost == 0
DialogExpiration == 30

\* no expiration_date (NULL)
NoDate == -1

\* InventoryItem(...), inventory.py lines 160-169; is_deleted defaults to False
NewItemRow(quantity, category, threshold, cost, expiration_date) ==
    [id |-> 0, quantity |-> quantity, is_deleted |-> FALSE, category |-> category,
     min_threshold |-> threshold, unit_cost |-> cost,
     expiration_date |-> expiration_date]

\* the session holds no object of the item, or an expired one
NoCopy == -1
NoCopies == [i \in 1..MaxItems |-> NoCopy]

\* commit() expires the objects the session holds (expire_on_commit) and
\* load_inventory, lines 86-90, loads them again
Reloaded(h, its) ==
    [i \in DOMAIN h |-> IF h[i] # NoCopy /\ i <= Len(its) THEN its[i].quantity
                        ELSE NoCopy]

\* a rollback, also the one of a failed flush, expires them
Expired(h) == [i \in DOMAIN h |-> NoCopy]

\* mutant of Query.get: the row is read again although the session holds
\* the object
CopyIn_Refreshed(db, h, item_id) == db.items[item_id].quantity

\* the quantity on the object session.query(InventoryItem).get(item_id)
\* returns to the inventory page: the object the session holds, if it holds
\* one, without a query; otherwise the row
CopyIn(db, h, item_id) ==
    IF h[item_id] # NoCopy THEN h[item_id] ELSE db.items[item_id].quantity

\* lines 159-176: add, commit, load_inventory; an exception rolls the
\* session back
add_item(db, s, h, quantity, flushFails) ==
    LET new_item == NewItemRow(quantity, DialogCategory, DialogThreshold,
                               DialogCost, DialogExpiration)
        c == SessionCommit(db, SessionAdd(s, "inventory_items", new_item), flushFails)
    IN IF c.raised
       THEN [db |-> db, session |-> SessionRollback(c.session), held |-> Expired(h),
             msgBox |-> <<"critical", "Failed to add item">>]
       ELSE [db |-> c.db, session |-> c.session, held |-> Reloaded(h, c.db.items),
             msgBox |-> <<"information", "Item added">>]

\* lines 186-200: get, assign, commit; an exception is reported and the
\* session is left as the failed commit left it
\* The dialog (kept alive by its parent, the page) keeps the object.  An
\* attribute assigned the value it already has is not part of the UPDATE.
edit_item(db, s, h, item_id, quantity, flushFails) ==
    LET copy == CopyIn(db, h, item_id)
        s1 == IF quantity # copy THEN SetQuantity(s, item_id, quantity) ELSE s
        c == SessionCommit(db, s1, flushFails)
    IN IF s.inactive
       THEN [db |-> db, session |-> s, held |-> h,
             msgBox |-> <<"critical", "Failed to update item">>]
       ELSE IF c.raised
       THEN [db |-> db, session |-> c.session, held |-> Expired(h),
             msgBox |-> <<"critical", "Failed to update item">>]
       ELSE [db |-> c.db, session |-> c.session,
             held |-> Reloaded([h EXCEPT ![item_id] = copy], c.db.items),
             msgBox |-> <<"information", "Item updated">>]

-----------------------------------------------------------------------------
(* InventoryQueries, database.py.  Rows carry no name here, so the queries  *)
(* ordered by name answer with the set of the keys of their rows.           *)

\* .order_by(key.asc()) over the rows `ids`; rows of equal key in key order
SortedBy(ids, key) ==
    [k \in 1..Cardinality(ids) |->
        CHOOSE i \in ids :
            Cardinality({j \in ids : \/ key[j] < key[i]
                                     \/ key[j] = key[i] /\ j < i}) = k - 1]

\* mutant of line 221: the is_deleted filter left out
get_low_stock_items_NoFilter(its, limit) ==
    LET quantity == [i \in 1..Len(its) |-> its[i].quantity]
    IN Limit(SortedBy({i \in 1..Len(its) : its[i].quantity < its[i].min_threshold},
                      quantity), limit)

get_low_stock_items(its, limit) ==
    LET quantity == [i \in 1..Len(its) |-> its[i].quantity]
    IN Limit(SortedBy({i \in 1..Len(its) :
                          /\ its[i].quantity < its[i].min_threshold
                          /\ ~its[i].is_deleted}, quantity), limit)

\* now is datetime.utcnow(), counted in days
get_expiring_items(its, now, days) ==
    LET expiration_date == [i \in 1..Len(its) |-> its[i].expiration_date]
    IN SortedBy({i \in 1..Len(its) :
                    /\ its[i].expiration_date # NoDate
                    /\ its[i].expiration_date <= now + days
                    /\ its[i].expiration_date >= now
                    /\ ~its[i].is_deleted}, expiration_date)

get_all_items(its, exclude_deleted) ==
    {i \in 1..Len(its) : exclude_deleted => ~its[i].is_deleted}

get_by_category(its, category) ==
    {i \in 1..Len(its) : its[i].category = category /\ ~its[i].is_deleted}

\* InventoryItem.get_stock_value
get_stock_value(item) == item.quantity * item.unit_cost

RECURSIVE SumValues(_, _)
\* sum(item.get_stock_value() for item in items)
SumValues(its, ids) ==
    IF ids = {} THEN 0
    ELSE LET i == CHOOSE j \in ids : TRUE
         IN get_stock_value(its[i]) + SumValues(its, ids \ {i})

get_total_inventory_value(its) ==
    SumValues(its, {i \in 1..Len(its) : ~its[i].is_deleted})

Quantities == {Hundredths(k) : k \in 0..MaxQty}
\* what the quantity spin box of WasteDialog delivers: it is not bounded by
\* the stock of the item chosen
WasteQuantities == {Hundredths(k) : k \in 0..(MaxQty + 1)}
FailPoints == {"none", "assign", "add", "flush"}

-----------------------------------------------------------------------------
(* Initial state: an empty store, the application not started *)

\* no write-off in progress on the waste page
IdleWrite == [pc |-> "idle", items |-> <<>>, wasteLogs |-> <<>>]

\* a reader that has not queried yet
NoSnapshot == [items |-> <<>>, wasteLogs |-> <<>>, at |-> "idle"]

\* no run_in_thread call yet
IdleTask == [pc |-> "idle", funcRaises |-> FALSE, completeRaises |-> FALSE,
             calls |-> <<>>]

\* MainWindow.current_page = None
NoPage == "None"

\* no transaction open, no worker started, no main window
ProcessInit ==
    /\ wtx = IdleWrite
    /\ seen = NoSnapshot
    /\ task = IdleTask
    /\ pages = {}
    /\ current_page = NoPage
    /\ held = NoCopies

Init ==
    /\ users = <<>>
    /\ items = <<>>
    /\ wasteLogs = <<>>
    /\ audits = <<>>
    /\ phase = "stopped"
    /\ current_user = NoUser
    /\ current_session = NoSession
    /\ winUser = NoUser
    /\ error_label = ""
    /\ loginReturn = NoUser
    /\ msgBox = NoBox
    /\ pending = [s \in PageSessions |-> CleanSession]
    /\ cu = [c \in Callers |-> IdleFrame]
    /\ baseline = <<>>
    /\ perm = [user |-> NoUser, action |-> "", result |-> FALSE]
    /\ boot = <<>>
    /\ qres = NoQuery
    /\ ProcessInit

InvUnchanged == UNCHANGED <<items, wasteLogs, baseline>>

-----------------------------------------------------------------------------
(* MainWindow pages, main_window.py *)

PageKeys == {"dashboard", "inventory", "waste", "reports", "audit"}

\* mutant of lines 221-223: the audit page created for every user
create_content_pages_AuditForAll(user) ==
    {"dashboard", "inventory", "waste", "reports", "audit"}

\* create_content_pages, lines 204-223: the keys of self.pages
create_content_pages(user) ==
    {"dashboard", "inventory", "waste", "reports"}
        \cup (IF user.role = ROLE_ADMIN THEN {"audit"} ELSE {})

\* switch_page, lines 232-253: current_page after it
switch_page(ps, current, page_key) ==
    IF page_key \notin ps THEN current ELSE page_key

-----------------------------------------------------------------------------

\* BrewMetricApp.initialize_database, main.py lines 34-63: the call of
\* create_default_admin and whether "Default credentials" was printed
initialize_database(us, salt, dbFail) ==
    LET r == create_default_admin(us, salt, dbFail)
    IN [before |-> us, admin |-> r.admin, after |-> r.users,
        printed |-> r.admin # NoUser]

\* BrewMetricApp.run: initialize_database and show_login, main.py
Startup(dbFail) ==
    /\ phase = "stopped"
    /\ FirstAdmin(users) # NoUser \/ Len(users) < MaxUsers
    /\ \E salt \in Salts :
         LET call == initialize_database(users, salt, dbFail)
             r == [admin |-> call.admin, users |-> call.after]
         IN /\ users' = r.users
            /\ boot' = IF boot = <<>> THEN <<call>> ELSE <<boot[Len(boot)], call>>
    /\ phase' = "login"
    /\ error_label' = ""
    /\ UNCHANGED <<audits, current_user, current_session, winUser, loginReturn,
                   msgBox, pending, cu, perm, qres, wtx, seen, task, pages,
                   current_page, held>>
    /\ InvUnchanged

\* the callbacks run for handle_login's run_in_thread call, login_window.py
\* lines 272-287: thread_worker calls on_login_complete with the result, and
\* on_login_complete calls on_login_error itself when the result is None
login_callbacks(user) ==
    IF user # NoUser THEN <<"on_complete">> ELSE <<"on_complete", "on_error">>

\* LoginWindow.handle_login .. on_login_complete / on_login_error, and on
\* success BrewMetricApp.on_login_success with MainWindow.__init__
Login(username, password, dbError, auditFails) ==
    /\ phase = "login"
    /\ task.pc \in {"idle", "done"}
    /\ Len(audits) < MaxAudits
    /\ LET user == authenticate_user(users, username, password, dbError)
           a == log_audit_action(Db, CleanSession, user, "LOGIN", "User", user.id,
                                 auditFails)
       IN /\ loginReturn' = user
          /\ IF user # NoUser
             THEN /\ current_user' = set_current_user(user, "login").current_user
                  /\ current_session' = set_current_user(user, "login").current_session
                  /\ winUser' = user
                  /\ pending' = [s \in PageSessions |->
                                   IF s = "main" THEN a.session ELSE CleanSession]
                  /\ audits' = a.db.audits
                  /\ phase' = "main"
                  /\ error_label' = ""
                  /\ pages' = create_content_pages(user)
                  /\ held' = NoCopies
                  /\ current_page' = switch_page(create_content_pages(user), NoPage,
                                                 "dashboard")
             ELSE /\ error_label' = "Invalid username or password"
                  /\ UNCHANGED <<current_user, current_session, winUser, pending,
                                 audits, phase, pages, current_page, held>>
          /\ task' = [pc |-> "done", funcRaises |-> FALSE, completeRaises |-> FALSE,
                      calls |-> login_callbacks(user)]
    /\ msgBox' = NoBox
    /\ UNCHANGED <<users, cu, perm, qres, boot, wtx, seen>>
    /\ InvUnchanged

\* ThreadManager.run_in_thread(func, on_complete=..., on_error=...),
\* animations.py lines 183-217, for a function that returns or raises and an
\* on_complete that returns or raises: the thread is started
ThreadUnchanged ==
    UNCHANGED <<users, items, wasteLogs, audits, phase, current_user,
                current_session, winUser, error_label, loginReturn, msgBox,
                pending, cu, baseline, perm, qres, boot, wtx, seen, pages,
                current_page, held>>

RunInThread(funcRaises, completeRaises) ==
    /\ task.pc \in {"idle", "done"}
    /\ task' = [pc |-> "func", funcRaises |-> funcRaises,
                completeRaises |-> completeRaises, calls |-> <<>>]
    /\ ThreadUnchanged

\* thread_worker, line 206: result = func(*args, **kwargs)
WorkerFunc ==
    /\ task.pc = "func"
    /\ task' = [task EXCEPT !.pc = IF task.funcRaises THEN "except" ELSE "complete"]
    /\ ThreadUnchanged

\* thread_worker, lines 207-208, inside the try: on_complete(result)
WorkerComplete ==
    /\ task.pc = "complete"
    /\ task' = [task EXCEPT !.calls = Append(@, "on_complete"),
                            !.pc = IF task.completeRaises THEN "except" ELSE "done"]
    /\ ThreadUnchanged

\* thread_worker, lines 209-211: except Exception as e: on_error(e)
WorkerExcept ==
    /\ task.pc = "except"
    /\ task' = [task EXCEPT !.calls = Append(@, "on_error"), !.pc = "done"]
    /\ ThreadUnchanged

\* MainWindow.handle_logout (answered Yes)
Logout(auditFails) ==
    /\ phase = "main"
    /\ Len(audits) < MaxAudits
    /\ audits' = log_audit_action(Db, pending["main"], winUser, "LOGOUT", "User",
                                  winUser.id, auditFails).db.audits
    /\ current_user' = logout.current_user
    /\ current_session' = logout.current_session
    /\ winUser' = NoUser
    /\ pending' = [s \in PageSessions |-> CleanSession]
    /\ phase' = "stopped"
    /\ msgBox' = NoBox
    /\ pages' = {}
    /\ current_page' = NoPage
    /\ held' = NoCopies
    /\ UNCHANGED <<users, error_label, loginReturn, cu, perm, qres, boot, wtx, seen,
                   task>>
    /\ InvUnchanged

\* MainWindow.switch_page called with any page key, main_window.py lines
\* 232-253 (the sidebar's buttons, lines 124-140, call it with their keys)
SwitchPage(page_key) ==
    /\ phase = "main"
    /\ current_page' = switch_page(pages, current_page, page_key)
    /\ UNCHANGED <<users, items, wasteLogs, audits, phase, current_user,
                   current_session, winUser, error_label, loginReturn, msgBox,
                   pending, cu, baseline, perm, qres, boot, wtx, seen, task, pages,
                   held>>

\* the window is closed (closeEvent) and the process ends
Quit ==
    /\ phase \in {"login", "main"}
    /\ current_user' = NoUser
    /\ current_session' = NoSession
    /\ winUser' = NoUser
    /\ pending' = [s \in PageSessions |-> CleanSession]
    /\ phase' = "stopped"
    /\ msgBox' = NoBox
    /\ pages' = {}
    /\ current_page' = NoPage
    /\ held' = NoCopies
    /\ error_label' = ""
    /\ loginReturn' = NoUser
    /\ UNCHANGED <<users, audits, cu, perm, qres, boot, wtx, seen, task>>
    /\ InvUnchanged

\* create_user called by one caller with nothing in between
ProvisionUser(req) ==
    /\ Len(users) < MaxUsers
    /\ \E salt \in Salts, dbFail \in BOOLEAN :
         LET r == create_user(users, req, salt, dbFail) IN
           /\ users' = r.users
           /\ cu' = [cu EXCEPT !["c1"] = [pc |-> "done", req |-> req, ret |-> r.ret]]
    /\ AppUnchanged

\* the deactivation of a user (section 3 of the specification)
DeactivateUser(i) ==
    /\ i \in 1..Len(users)
    /\ users[i].is_active
    /\ users' = [users EXCEPT ![i].is_active = FALSE]
    /\ UNCHANGED cu
    /\ AppUnchanged

\* InventoryPage.show_add_dialog, inventory.py lines 151-176
AddItem(quantity, flushFails) ==
    /\ phase = "main"
    /\ IF ~(winUser.role = ROLE_ADMIN)
       THEN /\ msgBox' = <<"warning", "Permission Denied">>
            /\ UNCHANGED <<items, wasteLogs, audits, pending, baseline, held>>
       ELSE /\ Len(items) < MaxItems
            /\ LET r == add_item(Db, pending["inventory"], held, quantity,
                                 flushFails) IN
                 /\ SetDb(r.db)
                 /\ pending' = [pending EXCEPT !["inventory"] = r.session]
                 /\ held' = r.held
                 /\ msgBox' = r.msgBox
                 /\ baseline' = IF Len(r.db.items) > Len(items)
                                THEN Append(baseline, [quantity |-> quantity,
                                                       logs |-> Len(wasteLogs)])
                                ELSE baseline
    /\ UNCHANGED <<phase, current_user, current_session, winUser, error_label,
                   loginReturn>>
    /\ DirUnchanged

\* InventoryPage.on_item_double_click, inventory.py lines 178-200
EditItem(item_id, quantity, flushFails) ==
    /\ phase = "main"
    /\ item_id \in get_all_items(items, TRUE)
    /\ LET r == edit_item(Db, pending["inventory"], held, item_id, quantity,
                          flushFails) IN
         /\ SetDb(r.db)
         /\ pending' = [pending EXCEPT !["inventory"] = r.session]
         /\ held' = r.held
         /\ msgBox' = r.msgBox
         /\ baseline' = IF /\ r.msgBox[1] = "information"
                           /\ quantity # CopyIn(Db, held, item_id)
                        THEN [baseline EXCEPT ![item_id] =
                                [quantity |-> quantity, logs |-> Len(wasteLogs)]]
                        ELSE baseline
    /\ UNCHANGED <<phase, current_user, current_session, winUser, error_label,
                   loginReturn>>
    /\ DirUnchanged

\* InventoryPage.on_item_double_click with the dialog cancelled, lines
\* 186-190: the item is fetched and the dialog, which stays, keeps it
EditCancel(item_id) ==
    /\ phase = "main"
    /\ item_id \in get_all_items(items, TRUE)
    /\ IF pending["inventory"].inactive
       THEN /\ msgBox' = <<"critical", "Failed to update item">>
            /\ UNCHANGED held
       ELSE /\ held' = [held EXCEPT ![item_id] = CopyIn(Db, held, item_id)]
            /\ UNCHANGED msgBox
    /\ UNCHANGED <<items, wasteLogs, audits, pending, baseline, phase, current_user,
                   current_session, winUser, error_label, loginReturn>>
    /\ DirUnchanged

\* WasteLogPage.show_add_waste_dialog with WasteDialog.accept, waste_log.py
RecordWaste(item_id, quantity, reason, failAt) ==
    /\ phase = "main"
    /\ Len(wasteLogs) < MaxLogs
    /\ item_id \in get_all_items(items, TRUE)
    /\ LET r == record_waste(Db, pending["waste"], winUser, item_id, quantity,
                             reason, failAt) IN
         /\ SetDb(r.db)
         /\ pending' = [pending EXCEPT !["waste"] = r.session]
         /\ msgBox' = r.msgBox
    /\ UNCHANGED <<phase, current_user, current_session, winUser, error_label,
                   loginReturn, baseline, held>>
    /\ DirUnchanged

-----------------------------------------------------------------------------
(* The write-off of waste_log.py lines 96-117 statement by statement, with  *)
(* the queries of the other pages' sessions in between.  commit() flushes   *)
(* the UPDATE of the item and the INSERT of the waste_logs row inside one   *)
(* database transaction and then ends it.                                   *)

WriteUnchanged == UNCHANGED <<users, audits, phase, current_user, current_session,
                              winUser, error_label, loginReturn, cu, baseline, perm,
                              qres, boot, task, pages, current_page, held>>

\* mutant of the isolation of the store: a query sees what an open
\* transaction of another session has written
ReadCommitted_Dirty(db, tx) ==
    IF tx.pc \in {"updated", "inserted"}
    THEN [items |-> [i \in 1..Len(tx.items) |-> tx.items[i].quantity],
          wasteLogs |-> tx.wasteLogs, at |-> tx.pc]
    ELSE [items |-> [i \in 1..Len(db.items) |-> db.items[i].quantity],
          wasteLogs |-> db.wasteLogs, at |-> tx.pc]

\* what a query on one session sees while another session's transaction tx
\* is open: the committed rows (engine of database.py lines 175-180)
ReadCommitted(db, tx) ==
    [items |-> [i \in 1..Len(db.items) |-> db.items[i].quantity],
     wasteLogs |-> db.wasteLogs, at |-> tx.pc]

\* lines 99-110: the item is fetched, its quantity assigned, the WasteLog
\* built and added; a session left inactive raises at the fetch
WasteStage(item_id, quantity, reason) ==
    /\ phase = "main"
    /\ wtx.pc = "idle"
    /\ Len(wasteLogs) < MaxLogs
    /\ item_id \in get_all_items(items, TRUE)
    /\ LET s == pending["waste"]
           waste_log == [inventory_item_id |-> item_id, user_id |-> winUser.id,
                         quantity |-> quantity, reason |-> reason]
           s1 == SetQuantity(s, item_id,
                             NewQuantity(QuantityIn(Db, s, item_id), quantity))
       IN IF s.inactive
          THEN /\ pending' = [pending EXCEPT !["waste"] = WasteFailed(Db, s).session]
               /\ msgBox' = WasteFailed(Db, s).msgBox
               /\ UNCHANGED wtx
          ELSE /\ pending' = [pending EXCEPT !["waste"] =
                                 SessionAdd(s1, "waste_logs", waste_log)]
               /\ wtx' = [IdleWrite EXCEPT !.pc = "staged"]
               /\ UNCHANGED msgBox
    /\ UNCHANGED <<items, wasteLogs, seen>>
    /\ WriteUnchanged

\* line 111, commit(): the flush sends the UPDATE of the item
WasteFlushUpdate ==
    /\ wtx.pc = "staged"
    /\ wtx' = [pc |-> "updated",
               items |-> ApplyDirty(items, pending["waste"].dirty),
               wasteLogs |-> wasteLogs]
    /\ UNCHANGED <<items, wasteLogs, pending, msgBox, seen>>
    /\ WriteUnchanged

\* line 111, commit(): the flush sends the INSERT of the waste_logs row
WasteFlushInsert ==
    /\ wtx.pc = "updated"
    /\ wtx' = [wtx EXCEPT !.pc = "inserted",
                          !.wasteLogs = ApplyNew([Db EXCEPT !.wasteLogs = @],
                                                 pending["waste"].new).wasteLogs]
    /\ UNCHANGED <<items, wasteLogs, pending, msgBox, seen>>
    /\ WriteUnchanged

\* line 111, commit(): COMMIT ends the transaction; lines 113-114
WasteCommit ==
    /\ wtx.pc = "inserted"
    /\ items' = wtx.items
    /\ wasteLogs' = wtx.wasteLogs
    /\ pending' = [pending EXCEPT !["waste"] = CleanSession]
    /\ wtx' = IdleWrite
    /\ msgBox' = <<"information", "Waste entry recorded">>
    /\ UNCHANGED seen
    /\ WriteUnchanged

\* an exception between line 107 and the end of commit(): lines 115-117
WasteRaise ==
    /\ wtx.pc \in {"staged", "updated", "inserted"}
    /\ pending' = [pending EXCEPT !["waste"] = WasteFailed(Db, @).session]
    /\ msgBox' = WasteFailed(Db, pending["waste"]).msgBox
    /\ wtx' = IdleWrite
    /\ UNCHANGED <<items, wasteLogs, seen>>
    /\ WriteUnchanged

\* a page on another session lists items and waste logs
\* (DashboardPage.refresh_data, ReportsPage)
ReaderQuery ==
    /\ phase = "main"
    /\ seen' = ReadCommitted(Db, wtx)
    /\ UNCHANGED <<items, wasteLogs, pending, msgBox, wtx>>
    /\ WriteUnchanged

\* a caller asks AuthManager.has_permission
CheckPermission(user, action) ==
    /\ perm' = [user |-> user, action |-> action,
                result |-> has_permission(user, action)]
    /\ UNCHANGED <<users, items, wasteLogs, audits, phase, current_user,
                   current_session, winUser, error_label, loginReturn, msgBox,
                   pending, cu, baseline, qres, boot, wtx, seen, task, pages,
                   current_page, held>>

QueryUnchanged == UNCHANGED <<users, items, wasteLogs, audits, phase, current_user,
                              current_session, winUser, error_label, loginReturn,
                              msgBox, pending, cu, baseline, perm, boot,
                              wtx, seen, task, pages, current_page, held>>

\* a caller runs AuditQueries.get_recent_actions(session, limit)
RecentActions(limit) ==
    /\ qres' = [query |-> "get_recent_actions", arg |-> "", limit |-> limit,
                rows |-> get_recent_actions(audits, limit), value |-> 0]
    /\ QueryUnchanged

\* a caller runs AuditQueries.get_actions_by_user(session, user_id)
ActionsByUser(user_id) ==
    /\ qres' = [query |-> "get_actions_by_user", arg |-> user_id, limit |-> 0,
                rows |-> get_actions_by_user(audits, user_id), value |-> 0]
    /\ QueryUnchanged

\* a caller runs AuditQueries.get_actions_by_type(session, action_type)
ActionsByType(action_type) ==
    /\ qres' = [query |-> "get_actions_by_type", arg |-> action_type, limit |-> 0,
                rows |-> get_actions_by_type(audits, action_type), value |-> 0]
    /\ QueryUnchanged

\* a caller runs one of the InventoryQueries
LowStockItems(limit) ==
    /\ qres' = [query |-> "get_low_stock_items", arg |-> "", limit |-> limit,
                rows |-> get_low_stock_items(items, limit), value |-> 0]
    /\ QueryUnchanged

ExpiringItems(now, days) ==
    /\ qres' = [query |-> "get_expiring_items", arg |-> <<now, days>>, limit |-> 0,
                rows |-> get_expiring_items(items, now, days), value |-> 0]
    /\ QueryUnchanged

AllItems(exclude_deleted) ==
    /\ qres' = [query |-> "get_all_items", arg |-> exclude_deleted, limit |-> 0,
                rows |-> get_all_items(items, exclude_deleted), value |-> 0]
    /\ QueryUnchanged

ByCategory(category) ==
    /\ qres' = [query |-> "get_by_category", arg |-> category, limit |-> 0,
                rows |-> get_by_category(items, category), value |-> 0]
    /\ QueryUnchanged

TotalInventoryValue ==
    /\ qres' = [query |-> "get_total_inventory_value", arg |-> "", limit |-> 0,
                rows |-> <<>>, value |-> get_total_inventory_value(items)]
    /\ QueryUnchanged

\* the soft deletion of an item (section 3 of the specification)
SoftDeleteItem(i) ==
    /\ i \in 1..Len(items)
    /\ ~items[i].is_deleted
    /\ items' = [items EXCEPT ![i].is_deleted = TRUE]
    /\ UNCHANGED <<users, wasteLogs, audits, phase, current_user, current_session,
                   winUser, error_label, loginReturn, msgBox, pending, cu, baseline,
                   perm, qres, boot, wtx, seen, task, pages, current_page, held>>

-----------------------------------------------------------------------------
(* Specifications *)

\* the user provisioned beside the bootstrap administrator, and the
\* credentials typed into the login window
AppRequests == { Req(S_bob, E_bob, P_good, "Bob", "guest") }
AppLogins == { <<S_admin, P_admin>>, <<S_bob, P_good>>, <<S_bob, P_admin>> }

\* the application with its inventory and waste pages
Next ==
    \/ \E dbFail \in BOOLEAN : Startup(dbFail)
    \/ \E l \in AppLogins : Login(l[1], l[2], FALSE, FALSE)
    \/ Logout(FALSE)
    \/ \E req \in AppRequests : ProvisionUser(req)
    \/ \E q \in Quantities, f \in BOOLEAN : AddItem(q, f)
    \/ \E i \in 1..MaxItems, q \in Quantities, f \in BOOLEAN : EditItem(i, q, f)
    \/ \E i \in 1..MaxItems, q \in Quantities, r \in WASTE_REASONS,
          f \in FailPoints : RecordWaste(i, q, r, f)

Spec == Init /\ [][Next]_vars

\* the login window and the directory: every credential, every failure
LoginRequests == { Req(S_bob, E_bob, P_good, "Bob", "guest"),
                   Req(S_ann, E_ann, P_admin, "Ann", ROLE_STAFF) }
LoginNames == {S_admin, S_bob, S_zed}
LoginPasswords == {P_admin, P_good}

NextLogin ==
    \/ \E dbFail \in BOOLEAN : Startup(dbFail)
    \/ \E u \in LoginNames, p \in LoginPasswords, dbError \in BOOLEAN,
          auditFails \in BOOLEAN : Login(u, p, dbError, auditFails)
    \/ \E auditFails \in BOOLEAN : Logout(auditFails)
    \/ Quit
    \/ \E req \in LoginRequests : ProvisionUser(req)
    \/ \E i \in 1..MaxUsers : DeactivateUser(i)

SpecLogin == Init /\ [][NextLogin]_vars

\* the directory under concurrent create_user calls, one session per caller
NextDir ==
    \/ \E c \in Callers, req \in DirRequests : CreateUserBegin(c, req)
    \/ \E c \in Callers : CreateUserEmail(c)
    \/ \E c \in Callers : CreateUserInsert(c)

SpecDir == Init /\ [][NextDir]_vars

\* the bootstrap of the default administrator beside a directory that other
\* callers provision: requests failing several checks at once, and requests
\* for the default username and the default email
BootRequests == {
    Req(S_ann, E_ann, P_good, "Ann", ROLE_STAFF),
    Req(S_ann, E_bob, P_good, "Ann", ROLE_STAFF),
    Req(S_bob, E_ann, P_good, "Bob", "guest"),
    Req(S_admin, E_bob, P_good, "Impostor", ROLE_STAFF),
    Req(S_bob, E_admin, P_good, "Bob", ROLE_STAFF),
    Req(S_1ab, E_bad, P_weak, "Bad", ROLE_STAFF),
    Req(S_1ab, E_ann, P_good, "Bad", ROLE_STAFF),
    Req(S_ann, E_bad, P_weak, "Bad", ROLE_STAFF),
    Req(S_ann, E_ann, P_weak, "Bad", ROLE_STAFF) }

NextBoot ==
    \/ Startup(FALSE)
    \/ Quit
    \/ \E req \in BootRequests : ProvisionUser(req)

SpecBoot == Init /\ [][NextBoot]_vars

\* the queries over a store that earlier runs of the application have
\* filled: a directory of two users, and every audit table of up to MaxAudits
\* login and logout rows, and one of more rows than the default limit
QueryUsers ==
    create_user(create_default_admin(<<>>, 1, FALSE).users,
                Req(S_ann, E_ann, P_good, "Ann", ROLE_STAFF), 1, FALSE).users

QueryAuditRows ==
    {AuditRow(QueryUsers[u], a, "User", u) :
        u \in 1..Len(QueryUsers), a \in {"LOGIN", "LOGOUT"}}

LongAuditTable ==
    [k \in 1..(RecentActionsDefaultLimit + 1) |->
        AuditRow(QueryUsers[1], "LOGIN", "User", 1)]

AuditTables ==
    UNION {[1..n -> QueryAuditRows] : n \in 0..MaxAudits} \cup {LongAuditTable}

QueryLimits == {1, 2, RecentActionsDefaultLimit}

\* the inventory tables of up to MaxItems + 1 rows the Add Item dialog can
\* have filled
QueryCategories == {"Tea", "Milk"}

QueryItemRows ==
    {NewItemRow(q, c, Hundredths(1), 2, e) :
        q \in Quantities, c \in QueryCategories, e \in {1, 3}}

ItemTables ==
    UNION {{[k \in 1..n |-> [f[k] EXCEPT !.id = k]] : f \in [1..n -> QueryItemRows]} :
             n \in 0..(MaxItems + 1)}

InitQuery ==
    /\ users = QueryUsers
    /\ \/ items = <<>> /\ audits \in AuditTables
       \/ items \in ItemTables /\ audits = <<>>
    /\ wasteLogs = <<>>
    /\ phase = "stopped"
    /\ current_user = NoUser
    /\ current_session = NoSession
    /\ winUser = NoUser
    /\ error_label = ""
    /\ loginReturn = NoUser
    /\ msgBox = NoBox
    /\ pending = [s \in PageSessions |-> CleanSession]
    /\ cu = [c \in Callers |-> IdleFrame]
    /\ baseline = <<>>
    /\ perm = [user |-> NoUser, action |-> "", result |-> FALSE]
    /\ boot = <<>>
    /\ qres = NoQuery
    /\ ProcessInit

NextQuery ==
    \/ \E limit \in QueryLimits : RecentActions(limit)
    \/ \E u \in 1..Len(QueryUsers) : ActionsByUser(u)
    \/ \E a \in {"LOGIN", "LOGOUT", "WASTE"} : ActionsByType(a)
    \/ \E limit \in {1, 10} : LowStockItems(limit)
    \/ \E now \in {0, 2}, days \in {1, 7} : ExpiringItems(now, days)
    \/ \E exclude_deleted \in BOOLEAN : AllItems(exclude_deleted)
    \/ \E c \in QueryCategories : ByCategory(c)
    \/ TotalInventoryValue
    \/ \E i \in 1..(MaxItems + 1) : SoftDeleteItem(i)

SpecQuery == InitQuery /\ [][NextQuery]_vars

\* the authorizer asked about every user and action
PermRoles == {ROLE_ADMIN, ROLE_STAFF, "guest", ""}
PermUsers == {NoUser} \cup
             {[id |-> 1, role |-> r, is_active |-> a] : r \in PermRoles, a \in BOOLEAN}
PermActions == staff_allowed \cup {"delete_item", "edit_item", "view_audit",
                                   "create_user", "export_audit", "manage_users", ""}

NextAuthz == \E u \in PermUsers, a \in PermActions : CheckPermission(u, a)

SpecAuthz == Init /\ [][NextAuthz]_vars

\* a write-off statement by statement and a reader on another session; the
\* inventory page's handler runs on the thread of the write-off's handler, so
\* not while the write-off is under way
NextRead ==
    \/ Startup(FALSE)
    \/ Login(S_admin, P_admin, FALSE, FALSE)
    \/ \E q \in Quantities : wtx.pc = "idle" /\ AddItem(q, FALSE)
    \/ \E i \in 1..MaxItems, q \in Quantities : WasteStage(i, q, "spill")
    \/ WasteFlushUpdate
    \/ WasteFlushInsert
    \/ WasteCommit
    \/ WasteRaise
    \/ ReaderQuery

SpecRead == Init /\ [][NextRead]_vars

\* users created with short and long passwords, and logins with each password
PassRequests == { Req(S_ann, E_ann, P_long1, "Ann", ROLE_STAFF),
                  Req(S_bob, E_bob, P_good, "Bob", ROLE_STAFF) }
PassNames == {S_admin, S_ann, S_bob}
PassPasswords == {P_admin, P_good, P_long1, P_long2}

NextPass ==
    \/ Startup(FALSE)
    \/ \E u \in PassNames, p \in PassPasswords : Login(u, p, FALSE, FALSE)
    \/ Logout(FALSE)
    \/ \E req \in PassRequests : ProvisionUser(req)
    \/ \E i \in 1..MaxUsers : DeactivateUser(i)

SpecPass == Init /\ [][NextPass]_vars

\* write-offs of any requested quantity against the stock the admin entered
NextWaste ==
    \/ Startup(FALSE)
    \/ Login(S_admin, P_admin, FALSE, FALSE)
    \/ Logout(FALSE)
    \/ \E q \in Quantities : AddItem(q, FALSE)
    \/ \E i \in 1..MaxItems, q \in WasteQuantities, r \in WASTE_REASONS,
          f \in FailPoints : RecordWaste(i, q, r, f)

SpecWaste == Init /\ [][NextWaste]_vars

\* the inventory page used by the administrator, a staff user and a user of
\* another role
StaffRequests == { Req(S_ann, E_ann, P_good, "Ann", ROLE_STAFF),
                   Req(S_bob, E_bob, P_good, "Bob", "guest") }
StaffLogins == { <<S_admin, P_admin>>, <<S_ann, P_good>>, <<S_bob, P_good>> }

NextStaff ==
    \/ Startup(FALSE)
    \/ \E l \in StaffLogins : Login(l[1], l[2], FALSE, FALSE)
    \/ Logout(FALSE)
    \/ \E req \in StaffRequests : ProvisionUser(req)
    \/ \E q \in Quantities, f \in BOOLEAN : AddItem(q, f)

SpecStaff == Init /\ [][NextStaff]_vars

\* commits that fail on the inventory page's and the main window's sessions
NextTxn ==
    \/ Startup(FALSE)
    \/ \E auditFails \in BOOLEAN : Login(S_admin, P_admin, FALSE, auditFails)
    \/ \E auditFails \in BOOLEAN : Logout(auditFails)
    \/ \E q \in Quantities, f \in BOOLEAN : AddItem(q, f)
    \/ \E i \in 1..MaxItems, q \in Quantities, f \in BOOLEAN : EditItem(i, q, f)

SpecTxn == Init /\ [][NextTxn]_vars

\* the inventory page and the waste page on their two sessions: stock of up
\* to three hundredths, write-offs of one or two, edit dialogs saved and
\* cancelled
StaleQuantities == {Hundredths(k) : k \in 0..3}
StaleWriteOffs == {Hundredths(k) : k \in 1..2}

NextStale ==
    \/ Startup(FALSE)
    \/ Login(S_admin, P_admin, FALSE, FALSE)
    \/ \E q \in StaleQuantities : AddItem(q, FALSE)
    \/ \E i \in 1..MaxItems, q \in StaleQuantities : EditItem(i, q, FALSE)
    \/ \E i \in 1..MaxItems : EditCancel(i)
    \/ \E i \in 1..MaxItems, q \in StaleWriteOffs, r \in WASTE_REASONS :
          RecordWaste(i, q, r, "none")

SpecStale == Init /\ [][NextStale]_vars

\* run_in_thread calls: the login window's, and calls with a function and an
\* on_complete that return or raise
ThreadLogins == { <<S_admin, P_admin>>, <<S_admin, P_good>>, <<S_ann, P_good>> }

NextThread ==
    \/ Startup(FALSE)
    \/ \E l \in ThreadLogins : Login(l[1], l[2], FALSE, FALSE)
    \/ Logout(FALSE)
    \/ \E req \in StaffRequests : ProvisionUser(req)
    \/ \E funcRaises \in BOOLEAN, completeRaises \in BOOLEAN :
          RunInThread(funcRaises, completeRaises)
    \/ WorkerFunc
    \/ WorkerComplete
    \/ WorkerExcept

SpecThread == Init /\ [][NextThread]_vars

\* the main window opened for the administrator, a staff user and a user of
\* another role, and every page key passed to switch_page
NextNav ==
    \/ Startup(FALSE)
    \/ \E l \in StaffLogins : Login(l[1], l[2], FALSE, FALSE)
    \/ Logout(FALSE)
    \/ \E req \in StaffRequests : ProvisionUser(req)
    \/ \E page_key \in PageKeys : SwitchPage(page_key)

SpecNav == Init /\ [][NextNav]_vars

-----------------------------------------------------------------------------
(* Claims about the waste write-off, checked under Spec *)

LogsOf(i) == {k \in 1..Len(wasteLogs) : wasteLogs[k].inventory_item_id = i}

RECURSIVE WastedSince(_, _)
\* the sum of the quantities of the waste_logs rows of item i after row `from`
WastedSince(i, from) ==
    IF from >= Len(wasteLogs) THEN 0
    ELSE (IF wasteLogs[from + 1].inventory_item_id = i
          THEN wasteLogs[from + 1].quantity ELSE 0) + WastedSince(i, from + 1)

C2_WasteAuditCount ==
    \A i \in 1..Len(items) :
        Cardinality({k \in 1..Len(audits) :
                        audits[k].action = "WASTE" /\ audits[k].entity_id = i})
          = Cardinality(LogsOf(i))

\* C3: a write-off that fails after the decrement and before its commit has
\* completed leaves the three tables as they were and nothing pending in the
\* session, so that a later committed write-off persists its own row and its
\* own decrement and nothing else.
C3_FailedWriteOffLeavesNothing ==
    [][\A i \in 1..MaxItems, q \in Quantities, r \in WASTE_REASONS :
         /\ \A f \in FailPoints \ {"none"} :
               RecordWaste(i, q, r, f) =>
                   /\ UNCHANGED <<items, wasteLogs, audits>>
                   /\ pending'["waste"] = CleanSession
         /\ RecordWaste(i, q, r, "none") =>
               /\ wasteLogs' = Append(wasteLogs,
                                 [inventory_item_id |-> i, user_id |-> winUser.id,
                                  quantity |-> q, reason |-> r])
               /\ items' = [items EXCEPT ![i].quantity = Max(0, @ - q)]
               /\ UNCHANGED audits]_vars

\* a write-off has failed, and the item still holds stock
C3_Witness ==
    /\ msgBox = <<"critical", "Failed to record waste">>
    /\ \E i \in 1..Len(items) : items[i].quantity > 0

\* C4: every waste_logs row has a quantity > 0, a configured reason and an
\* existing item that is not soft-deleted (a request failing one of these is
\* rejected without side effects).
C4_WasteRowsValidated ==
    \A k \in 1..Len(wasteLogs) :
        /\ wasteLogs[k].quantity > 0
        /\ wasteLogs[k].reason \in WASTE_REASONS
        /\ wasteLogs[k].inventory_item_id \in get_all_items(items, TRUE)

\* C5: the persisted quantity of every item is >= 0.
C5_QuantityNeverNegative ==
    \A i \in 1..Len(items) : items[i].quantity >= 0

\* more was written off than the item held: the quantity was floored at 0
C5_Witness ==
    \E i \in 1..Len(items) :
        /\ items[i].quantity = 0
        /\ WastedSince(i, baseline[i].logs) > baseline[i].quantity

\* C6: a write-off is committed only for an actor for whom
\* has_permission(actor, record_waste) holds.
C6_WasteOnlyIfPermitted ==
    \A k \in 1..Len(wasteLogs) :
        has_permission(users[wasteLogs[k].user_id], "record_waste")

\* C15: every committed creation or update of an inventory item commits, in
\* the same transaction, one audit_trails row of kind CREATE or UPDATE for
\* that item, attributed to the acting user.
C15_ItemMutationAudited ==
    [][/\ \A q \in Quantities, f \in BOOLEAN :
            (AddItem(q, f) /\ items' # items) =>
                /\ Len(audits') = Len(audits) + 1
                /\ audits'[Len(audits')] =
                      AuditRow(winUser, "CREATE", "InventoryItem", Len(items'))
       /\ \A i \in 1..MaxItems, q \in Quantities, f \in BOOLEAN :
            (EditItem(i, q, f) /\ items' # items) =>
                /\ Len(audits') = Len(audits) + 1
                /\ audits'[Len(audits')] =
                      AuditRow(winUser, "UPDATE", "InventoryItem", i)]_vars

\* a is an initial part of b
IsPrefix(a, b) == Len(a) <= Len(b) /\ SubSeq(b, 1, Len(a)) = a

-----------------------------------------------------------------------------
(* Claim about the authorizer, checked under SpecAuthz *)

\* C7: has_permission(user, action) is true exactly when the user is an
\* admin, or is staff and the action is one of the six allowed ones; it is
\* false for no user and for any other role.
C7_PermissionTable ==
    perm.result =
        (/\ perm.user # NoUser
         /\ \/ perm.user.role = "admin"
            \/ /\ perm.user.role = "staff"
               /\ perm.action \in {"view_inventory", "add_item", "adjust_stock",
                                   "record_waste", "view_activity",
                                   "export_inventory"})

\* staff was asked about delete_item and refused
C7_Witness ==
    /\ perm.user # NoUser
    /\ perm.user.role = "staff"
    /\ perm.action = "delete_item"
    /\ ~perm.result

-----------------------------------------------------------------------------
(* Claim about authentication, checked under SpecLogin *)

\* the stored hash of row u is a hash of password p
HashOf(u, p) == \E salt \in Salts : u.password_hash = hashpw(p, salt)

\* C8: a login attempt gets a user back only if a user of that name exists,
\* is active and the password matches its stored hash; for a name that does
\* not exist, a wrong password, an inactive user or a storage error it gets
\* none, and then the login window shows one and the same message and stays.
C8_AuthenticateFailsClosed ==
    [][\A u \in LoginNames, p \in LoginPasswords, dbError \in BOOLEAN,
          auditFails \in BOOLEAN :
         Login(u, p, dbError, auditFails) =>
            LET good == /\ ~dbError
                        /\ \E i \in 1..Len(users) :
                              /\ users[i].username = u
                              /\ users[i].is_active
                              /\ HashOf(users[i], p)
            IN /\ good => /\ loginReturn' # NoUser
                          /\ loginReturn'.username = u
                          /\ phase' = "main"
               /\ ~good => /\ loginReturn' = NoUser
                           /\ error_label' = "Invalid username or password"
                           /\ phase' = "login"
                           /\ current_user' = NoUser]_vars

\* a login was refused while a deactivated user is in the directory
C8_Witness ==
    /\ phase = "login"
    /\ loginReturn = NoUser
    /\ error_label = "Invalid username or password"
    /\ \E i \in 1..Len(users) : ~users[i].is_active /\ users[i].username \in LoginNames

\* C14: after a login the slot holds the user the authentication returned
\* and the session of the login window; after a logout it holds neither;
\* and the current user is only ever set, by a login, to the user that
\* login's authentication returned.
C14_SessionSlot ==
    [][/\ \A u \in LoginNames, p \in LoginPasswords, dbError \in BOOLEAN,
             auditFails \in BOOLEAN :
            (Login(u, p, dbError, auditFails) /\ loginReturn' # NoUser) =>
                /\ current_user' = loginReturn'
                /\ current_session' = "login"
                /\ current_user' = authenticate_user(users, u, p, dbError)
       /\ \A auditFails \in BOOLEAN :
            Logout(auditFails) => /\ current_user' = NoUser
                                  /\ current_session' = NoSession
       /\ (current_user' # current_user /\ current_user' # NoUser) =>
            /\ phase = "login"
            /\ loginReturn' = current_user'
            /\ \E i \in 1..Len(users) : users[i] = current_user' /\ users[i].is_active
       /\ (current_user' = NoUser) <=> (current_session' = NoSession)]_vars

\* a user has logged in and then out: the slot is empty again
C14_Witness ==
    /\ phase = "stopped"
    /\ loginReturn # NoUser
    /\ current_user = NoUser
    /\ current_session = NoSession

\* C19: a successful login commits exactly one LOGIN row and a logout
\* exactly one LOGOUT row, for the logged-in user, also when the audit write
\* fails: neither completes without its row.
C19_LoginLogoutAudited ==
    [][/\ \A u \in LoginNames, p \in LoginPasswords, dbError \in BOOLEAN,
             auditFails \in BOOLEAN :
            (Login(u, p, dbError, auditFails) /\ phase' = "main") =>
                audits' = Append(audits, AuditRow(loginReturn', "LOGIN", "User",
                                                  loginReturn'.id))
       /\ \A auditFails \in BOOLEAN :
            Logout(auditFails) =>
                audits' = Append(audits, AuditRow(winUser, "LOGOUT", "User",
                                                  winUser.id))]_vars

\* C20: a successful login sets the last_login of the authenticated user to
\* the time of that login: after the step it is not null and it is not what
\* it was before.
C20_LastLoginUpdated ==
    [][\A u \in LoginNames, p \in LoginPasswords, dbError \in BOOLEAN,
          auditFails \in BOOLEAN :
         (Login(u, p, dbError, auditFails) /\ phase' = "main") =>
            /\ users'[loginReturn'.id].last_login # NoTime
            /\ users'[loginReturn'.id].last_login # users[loginReturn'.id].last_login]_vars

-----------------------------------------------------------------------------
(* Claims about create_user, checked under SpecDir *)

SameName(us, req) == \E i \in 1..Len(us) : us[i].username = req.username
SameEmail(us, req) == \E i \in 1..Len(us) : us[i].email = req.email

\* C9: once a user holds a username or an email, a create_user for the same
\* username is refused by the username check, and one for the same email by
\* the email check; the refused call returns a failure and the users table
\* is left as it was.
C9_DuplicateRefused ==
    [][\A c \in Callers :
         /\ \A req \in DirRequests :
               (CreateUserBegin(c, req) /\ ValidateReq(req) = <<"ok">>
                   /\ SameName(users, req))
                 => /\ cu'[c].pc = "done"
                    /\ ~cu'[c].ret.ok
                    /\ cu'[c].ret.user = NoUser
                    /\ users' = users
         /\ (CreateUserEmail(c) /\ SameEmail(users, cu[c].req))
                 => /\ cu'[c].pc = "done"
                    /\ ~cu'[c].ret.ok
                    /\ cu'[c].ret.user = NoUser
                    /\ users' = users]_vars

\* a call was refused for its username while another had created the user
C9_Witness ==
    \E c, d \in Callers :
        /\ c # d
        /\ cu[c].pc = "done" /\ cu[c].ret.ok
        /\ cu[d].pc = "done" /\ ~cu[d].ret.ok
        /\ cu[d].ret.msg = <<"Username already exists">>
        /\ cu[d].req.username = cu[c].req.username

\* C10: under every interleaving of the check and insert steps of concurrent
\* create_user calls, no two rows of users share a username or an email, two
\* finished calls for one username or one email have not both succeeded, and
\* a call that fails adds no row while one that succeeds adds exactly its own.
C10_ConcurrentCreateUnique ==
    /\ [](\A i, j \in 1..Len(users) :
             i # j => /\ users[i].username # users[j].username
                      /\ users[i].email # users[j].email)
    /\ [](\A c, d \in Callers :
             (/\ c # d
              /\ cu[c].pc = "done" /\ cu[c].ret.ok
              /\ cu[d].pc = "done" /\ cu[d].ret.ok)
               => /\ cu[c].req.username # cu[d].req.username
                  /\ cu[c].req.email # cu[d].req.email)
    /\ [][\A c \in Callers :
            CreateUserInsert(c) =>
               IF cu'[c].ret.ok
               THEN users' = Append(users, cu'[c].ret.user)
               ELSE users' = users /\ cu'[c].ret.user = NoUser]_vars

\* two calls for one username both passed their checks; one inserted, the
\* other was refused by the store
C10_Witness ==
    \E c, d \in Callers :
        /\ c # d
        /\ cu[c].pc = "done" /\ cu[c].ret.ok
        /\ cu[d].pc = "done" /\ ~cu[d].ret.ok
        /\ cu[d].ret.msg = <<"Error creating user">>
        /\ \/ cu[d].req.username = cu[c].req.username
           \/ cu[d].req.email = cu[c].req.email
        /\ Len(users) = 1

-----------------------------------------------------------------------------
(* Claims about the queries, checked under SpecQuery *)

\* C17: an audit query returns only rows matching its filter, newest first,
\* and no more rows than its limit: the limit given to get_recent_actions,
\* the default limit for the queries that are given none.
C17_AuditQueryBounded ==
    qres.query \in {"get_recent_actions", "get_actions_by_user",
                    "get_actions_by_type"} =>
        /\ \A k \in 1..Len(qres.rows) :
              /\ qres.rows[k] \in 1..Len(audits)
              /\ qres.query = "get_actions_by_user" =>
                    audits[qres.rows[k]].user_id = qres.arg
              /\ qres.query = "get_actions_by_type" =>
                    audits[qres.rows[k]].action = qres.arg
        /\ \A k \in 1..(Len(qres.rows) - 1) : qres.rows[k] > qres.rows[k + 1]
        /\ Len(qres.rows) <= IF qres.query = "get_recent_actions" THEN qres.limit
                              ELSE RecentActionsDefaultLimit

\* the keys of the rows the query result q holds
Returned(q) ==
    IF q.query \in {"get_all_items", "get_by_category"} THEN q.rows
    ELSE {q.rows[k] : k \in 1..Len(q.rows)}

\* the table with its soft-deleted rows taken out
Active(its) == SelectSeq(its, LAMBDA item : ~item.is_deleted)

\* q holds the key of no soft-deleted row of the table
NoneDeleted(q) == \A i \in Returned(q) : i \in 1..Len(items) /\ ~items[i].is_deleted

\* C18: no active inventory query (all items by default, low stock,
\* expiring, by category) returns a soft-deleted item, and the total
\* inventory value counts none: it is the value of the table without them.
C18_QueriesSkipDeleted ==
    [][/\ (\E limit \in {1, 10} : LowStockItems(limit)) => NoneDeleted(qres')
       /\ (\E now \in {0, 2}, days \in {1, 7} : ExpiringItems(now, days))
             => NoneDeleted(qres')
       /\ AllItems(TRUE) => NoneDeleted(qres')
       /\ (\E c \in QueryCategories : ByCategory(c)) => NoneDeleted(qres')
       /\ TotalInventoryValue =>
             qres'.value = SumValues(Active(items), 1..Len(Active(items)))]_vars

\* the low-stock query has answered over a table in which a soft-deleted
\* item is below its threshold and another item is returned
C18_Witness ==
    /\ qres.query = "get_low_stock_items"
    /\ Len(qres.rows) >= 1
    /\ NoneDeleted(qres)
    /\ \E i \in 1..Len(items) :
          items[i].is_deleted /\ items[i].quantity < items[i].min_threshold

-----------------------------------------------------------------------------
(* Claims about create_user and create_default_admin, checked under SpecBoot *)

\* the first check of the claimed order that req fails against the table us
FirstViolation(us, req) ==
    IF validate_username(req.username) # "ok" THEN "Invalid username"
    ELSE IF validate_email(req.email) # "ok" THEN "Invalid email"
    ELSE IF validate_password_strength(req.password) # "ok" THEN "Weak password"
    ELSE IF SameName(us, req) THEN "Username already exists"
    ELSE IF SameEmail(us, req) THEN "Email already exists"
    ELSE "none"

\* C11: create_user checks the username format, the email format, the
\* password strength, the username uniqueness and the email uniqueness in
\* this order and reports the first check that fails; every call that fails
\* leaves the users table as it was.
C11_FirstViolationReported ==
    [][\A req \in BootRequests :
         ProvisionUser(req) =>
            /\ FirstViolation(users, req) # "none" =>
                  /\ ~cu'["c1"].ret.ok
                  /\ cu'["c1"].ret.msg[1] = FirstViolation(users, req)
                  /\ cu'["c1"].ret.user = NoUser
            /\ ~cu'["c1"].ret.ok => users' = users]_vars

\* a request failing all three format checks was refused for its username
\* while the directory holds a user
C11_Witness ==
    /\ cu["c1"].pc = "done"
    /\ ~cu["c1"].ret.ok
    /\ cu["c1"].ret.msg[1] = "Invalid username"
    /\ validate_email(cu["c1"].req.email) # "ok"
    /\ validate_password_strength(cu["c1"].req.password) # "ok"
    /\ Len(users) >= 1

\* the rows of us holding the admin role
Admins(us) == {i \in 1..Len(us) : us[i].role = ROLE_ADMIN}

\* C12: two create_default_admin calls in sequence return the same admin
\* user, the second creates no user, and when the directory held no admin
\* before the first, exactly one admin-role user exists after the second.
C12_BootstrapIdempotent ==
    (Len(boot) = 2 /\ boot[2].before = boot[1].after) =>
        /\ boot[2].admin = boot[1].admin
        /\ boot[2].after = boot[2].before
        /\ Admins(boot[1].before) = {} =>
              /\ Cardinality(Admins(boot[2].after)) = 1
              /\ boot[2].admin = boot[2].after[CHOOSE i \in Admins(boot[2].after) : TRUE]

\* C13: create_default_admin returns an admin-role user: the existing one,
\* with the directory unchanged, if there is one; otherwise a new one named
\* 'admin'.  After it returns the directory holds an admin-role user.
C13_BootstrapReturnsAdmin ==
    boot # <<>> =>
        LET call == boot[Len(boot)] IN
          /\ call.admin # NoUser
          /\ call.admin.role = ROLE_ADMIN
          /\ Admins(call.before) # {} =>
                /\ call.admin = FirstAdmin(call.before)
                /\ call.after = call.before
          /\ Admins(call.before) = {} =>
                /\ call.admin.username = S_admin
                /\ call.after = Append(call.before, call.admin)
          /\ Admins(call.after) # {}

-----------------------------------------------------------------------------
(* Claims about readers on other sessions, checked under SpecRead *)

RECURSIVE WastedIn(_, _, _)
\* the sum of the quantities of the rows of item i after row `from` in logs
WastedIn(logs, i, from) ==
    IF from >= Len(logs) THEN 0
    ELSE (IF logs[from + 1].inventory_item_id = i
          THEN logs[from + 1].quantity ELSE 0) + WastedIn(logs, i, from + 1)

-----------------------------------------------------------------------------
(* Claim about passwords, checked under SpecPass *)

\* the password of the create_user call that made the user named u (each
\* request of SpecPass, and the bootstrap, has a name of its own)
CreatedWith(u) ==
    (CHOOSE r \in PassRequests \cup {DefaultAdminReq} : r.username = u).password

\* C22: for a user created with password p and still active, a login with
\* password p' gets that user back exactly when p' = p, and the stored
\* password_hash is not the plaintext password.
C22_AuthenticateExactlyCreationPassword ==
    [][\A u \in PassNames, p \in PassPasswords :
         Login(u, p, FALSE, FALSE) =>
            \A i \in 1..Len(users) :
                (users[i].username = u /\ users[i].is_active) =>
                    /\ (loginReturn' = users[i]) <=> (p = CreatedWith(u))
                    /\ verify_password(CreatedWith(u), users[i].password_hash)
                    /\ users[i].password_hash # CreatedWith(u)]_vars

-----------------------------------------------------------------------------
(* Claim about the roles in the directory, checked under SpecDir *)

\* C23: every persisted user has the role admin or staff.
C23_RolesAdminOrStaff ==
    \A i \in 1..Len(users) : users[i].role \in {ROLE_ADMIN, ROLE_STAFF}

-----------------------------------------------------------------------------
(* Claim about over-requested write-offs, checked under SpecWaste *)

\* C24: a write-off that requests more than the quantity on hand sets the
\* item's quantity to 0 and inserts one waste_logs row, which stores the
\* requested quantity and not the amount taken from stock.
C24_OverRequestLogsRequested ==
    [][\A i \in 1..MaxItems, q \in WasteQuantities, r \in WASTE_REASONS :
         (RecordWaste(i, q, r, "none") /\ q > items[i].quantity) =>
            /\ items'[i].quantity = 0
            /\ wasteLogs' = Append(wasteLogs,
                                   [inventory_item_id |-> i, user_id |-> winUser.id,
                                    quantity |-> q, reason |-> r])]_vars

\* stock 1, request 2: the item is at 0 and the row stores 2
C24_Witness ==
    /\ Len(items) = 1 /\ Len(wasteLogs) = 1
    /\ baseline[1].quantity = Hundredths(1)
    /\ wasteLogs[1].quantity = Hundredths(2)
    /\ items[1].quantity = 0
    /\ msgBox = <<"information", "Waste entry recorded">>

-----------------------------------------------------------------------------
(* Claim about who may add an item, checked under SpecStaff *)

\* C25: the add-item operation proceeds for exactly the users for whom
\* has_permission(user, add_item) is true, a staff user among them; when it
\* is denied no inventory_items row is created.
C25_AddItemFollowsPermission ==
    [][\A q \in Quantities, f \in BOOLEAN :
         AddItem(q, f) =>
            /\ (msgBox' # <<"warning", "Permission Denied">>)
                  <=> has_permission(winUser, "add_item")
            /\ ~has_permission(winUser, "add_item") => items' = items]_vars

-----------------------------------------------------------------------------
(* Claim about failed commits, checked under SpecTxn *)

NothingPending(s) == s.dirty = {} /\ s.new = <<>>

\* the table `after` is `before` with at most the one row `row` appended
AtMostAppended(before, after, row) == after \in {before, Append(before, row)}

\* C26: when the commit of an item update or of an audit record fails,
\* nothing of the operation is persisted and nothing of it stays pending in
\* the session; every later operation on the same session persists at most
\* its own change.
C26_FailedCommitPersistsNothing ==
    [][/\ \A i \in 1..MaxItems, q \in Quantities :
            EditItem(i, q, TRUE) =>
                /\ items' = items /\ audits' = audits /\ wasteLogs' = wasteLogs
                /\ NothingPending(pending'["inventory"])
       /\ Login(S_admin, P_admin, FALSE, TRUE) =>
                /\ items' = items /\ audits' = audits /\ wasteLogs' = wasteLogs
                /\ NothingPending(pending'["main"])
       /\ Logout(TRUE) =>
                /\ items' = items /\ audits' = audits /\ wasteLogs' = wasteLogs
       /\ \A i \in 1..MaxItems, q \in Quantities :
            EditItem(i, q, FALSE) =>
                /\ items' \in {items, [items EXCEPT ![i].quantity = q]}
                /\ audits' = audits /\ wasteLogs' = wasteLogs
       /\ \A q \in Quantities, f \in BOOLEAN :
            AddItem(q, f) =>
                /\ \/ items' = items
                   \/ /\ Len(items') = Len(items) + 1
                      /\ SubSeq(items', 1, Len(items)) = items
                      /\ items'[Len(items')].quantity = q
                /\ audits' = audits /\ wasteLogs' = wasteLogs
       /\ Login(S_admin, P_admin, FALSE, FALSE) =>
                /\ AtMostAppended(audits, audits',
                                  AuditRow(loginReturn', "LOGIN", "User", loginReturn'.id))
                /\ items' = items
       /\ Logout(FALSE) =>
                /\ AtMostAppended(audits, audits',
                                  AuditRow(winUser, "LOGOUT", "User", winUser.id))
                /\ items' = items]_vars

\* the audit record of the login failed to commit, and so did an update of
\* the item: both sessions are left inactive with nothing pending, and the
\* tables hold neither the record nor the update
C26_Witness ==
    /\ phase = "main"
    /\ pending["main"].inactive /\ NothingPending(pending["main"])
    /\ audits = <<>>
    /\ msgBox = <<"critical", "Failed to update item">>
    /\ pending["inventory"].inactive /\ NothingPending(pending["inventory"])
    /\ Len(items) = 1 /\ items[1].quantity = baseline[1].quantity

\* C27: over any sequence of start-ups the default credentials are printed at
\* most once, by the start-up whose bootstrap created the administrator; a
\* start-up that finds an administrator prints none.
C27_CredentialsPrintedOnce ==
    /\ \A k \in 1..Len(boot) :
          boot[k].printed => /\ Admins(boot[k].before) = {}
                             /\ boot[k].after = Append(boot[k].before, boot[k].admin)
    /\ Len(boot) = 2 => ~(boot[1].printed /\ boot[2].printed)

-----------------------------------------------------------------------------
(* Claims about the two pages' sessions, checked under SpecStale *)

\* C28: for any interleaving of edits and write-offs through the two pages'
\* sessions, a committed write-off leaves max(0, last committed quantity -
\* requested), and saving an edit dialog whose quantity the user left as it
\* was shown never overwrites the committed quantity with the stale copy's.
C28_NoOverwriteFromStaleCopy ==
    [][ /\ \A i \in 1..MaxItems, q \in StaleWriteOffs, r \in WASTE_REASONS :
             RecordWaste(i, q, r, "none") /\ msgBox'[1] = "information"
                => items'[i].quantity = NewQuantity(items[i].quantity, q)
        /\ \A i \in 1..MaxItems, q \in StaleQuantities :
             ( /\ EditItem(i, q, FALSE)
               /\ held[i] # NoCopy
               /\ held[i] # items[i].quantity
               /\ q = SpinBoxRound(held[i]) )
                => items'[i].quantity = items[i].quantity ]_vars

-----------------------------------------------------------------------------
(* Claims about ThreadManager.run_in_thread, checked under SpecThread *)

\* C29: for each finished run_in_thread call with both callbacks given,
\* exactly one callback was invoked, once: on_complete when the function
\* returned, on_error when it raised; on_error never follows on_complete.
C29_ExactlyOneCallback ==
    task.pc = "done" =>
        /\ Len(task.calls) = 1
        /\ task.calls[1] = (IF task.funcRaises THEN "on_error" ELSE "on_complete")
        /\ \A i \in 1..Len(task.calls), j \in 1..Len(task.calls) :
              i < j => ~(task.calls[i] = "on_complete" /\ task.calls[j] = "on_error")

-----------------------------------------------------------------------------
(* Claims about the main window's pages, checked under SpecNav *)

\* C30: in a main window opened for a user whose role is not admin the audit
\* trail page is not among the pages created and is never the current page,
\* whatever page keys switch_page is called with.
C30_AuditPageOnlyForAdmin ==
    (phase = "main" /\ winUser.role # ROLE_ADMIN) =>
        /\ "audit" \notin pages
        /\ current_page # "audit"

\* a user who is not an administrator has switched away from the dashboard
C30_Witness ==
    /\ phase = "main"
    /\ winUser.role # ROLE_ADMIN
    /\ current_page \in pages \ {"dashboard"}

====
